---------------------------- MODULE Spec2Model ----------------------------
(***************************************************************************)
(* Model of TTSIntegration (src/tts_integration.py): the nested text       *)
(* extraction extract_text and the pipeline fetch_data -> extract_text ->  *)
(* text_to_speech -> play_audio run by process_pipeline,                    *)
(* and of the handler get_news_audio of the Flask server                   *)
(* (src/tts_api_server.py), one thread per request.                        *)
(*                                                                         *)
(* Python strings are modelled as sequences of tokens, so that joining,    *)
(* suffix tests and concatenation are computed and not assumed:            *)
(*   - a text is a sequence of characters ("" is << >>);                   *)
(*   - a key (a dict key, text_key) is the sequence of its dot-free        *)
(*     segments: "data.0.title" is <<"data", "0", "title">>.  Two keys are *)
(*     equal as Python strings exactly when their segment sequences are.   *)
(***************************************************************************)
EXTENDS Integers, Sequences, FiniteSets, TLC

\* ------------------------------------------------------------------ bounds

\* Largest number of nodes (scalars and containers) of a JSON value given to
\* extract_text in ExtractSpec.
MaxNodes == 4

\* Largest number of nodes of a JSON body the HTTP server answers with in Spec.
FetchNodes == 2

\* Number of invocations (process_pipeline or text_to_speech) of one run.
MaxCalls == 2

\* Largest value of the clock time.time() reads, in whole seconds.
MaxClock == 1

\* Largest number of get_news_audio requests the server handles at once.
MaxRequests == 2

\* ------------------------------------------------------- JSON values (json)

\* The value kinds response.json() can return: None, bool, number, str,
\* list, dict (an insertion-ordered sequence of key/value pairs).
Null == [t |-> "null"]

Bool(b) == [t |-> "bool", b |-> b]

Num(n) == [t |-> "num", n |-> n]

Str(s) == [t |-> "str", s |-> s]

List(items) == [t |-> "list", items |-> items]

Dict(pairs) == [t |-> "dict", pairs |-> pairs]

Pair(k, v) == [k |-> k, v |-> v]

\* The empty string "" that extract_text returns for "not found".
EmptyStr == Str(<< >>)

\* Scalars the model draws: a falsy and two truthy strings, a truthy number,
\* a truthy boolean and null.
Scalars == {Null, Bool(TRUE), Num(5), EmptyStr, Str(<<"A">>), Str(<<"B">>)}

\* Keys a mapping of the decoded body can hold.
Keys == {<<"data">>, <<"title">>, <<"text">>}

\* Values of the text_key argument: two plain keys and a dotted path.
TextKeys == {<<"text">>, <<"title">>, <<"data", "0", "title">>}

RECURSIVE JSONOfSize(_), SeqsOfSize(_), PairsOfSize(_, _)
\* Every JSON value of exactly n nodes.
JSONOfSize(n) ==
    IF n = 1
    THEN Scalars \cup {List(<< >>), Dict(<< >>)}
    ELSE {List(s) : s \in SeqsOfSize(n - 1)}
         \cup {Dict(p) : p \in PairsOfSize(n - 1, {})}

\* Every sequence of JSON values of m nodes in total.
SeqsOfSize(m) ==
    IF m = 0
    THEN {<< >>}
    ELSE UNION {{<<v>> \o rest : v \in JSONOfSize(k), rest \in SeqsOfSize(m - k)} :
                k \in 1..m}

\* Every sequence of pairs with distinct keys outside `used`, m nodes in total.
PairsOfSize(m, used) ==
    IF m = 0
    THEN {<< >>}
    ELSE UNION {{<<Pair(key, v)>> \o rest :
                    v \in JSONOfSize(k), rest \in PairsOfSize(m - k, used \cup {key})} :
                key \in Keys \ used, k \in 1..m}

\* d is a JSON value of at most `bound` nodes.  JSONOfSize unfolded once, so
\* that the values are enumerated one by one and never collected in one set.
IsJSONValue(d, bound) ==
    \E n \in 1..bound :
        \/ /\ n = 1
           /\ d \in JSONOfSize(1)
        \/ /\ n > 1
           /\ \E k \in 1..(n - 1) : \E v \in JSONOfSize(k) :
                 \/ \E rest \in SeqsOfSize(n - 1 - k) : d = List(<<v>> \o rest)
                 \/ \E key \in Keys : \E rest \in PairsOfSize(n - 1 - k, {key}) :
                        d = Dict(<<Pair(key, v)>> \o rest)

\* ------------------------------------------------------- Python primitives

\* bool(x): None, False, 0, "", [] and {} are falsy.
Truthy(x) ==
    CASE x.t = "null" -> FALSE
      [] x.t = "bool" -> x.b
      [] x.t = "num"  -> x.n # 0
      [] x.t = "str"  -> Len(x.s) > 0
      [] x.t = "list" -> Len(x.items) > 0
      [] x.t = "dict" -> Len(x.pairs) > 0

\* isinstance(x, (dict, list))
IsContainer(x) == x.t \in {"dict", "list"}

\* key in d
HasKey(d, key) == \E i \in 1..Len(d.pairs) : d.pairs[i].k = key

\* d[key], for key in d
Lookup(d, key) ==
    d.pairs[CHOOSE i \in 1..Len(d.pairs) : d.pairs[i].k = key].v

\* A local that is not bound yet.
Unbound == [t |-> "unbound"]

\* No call made yet.
NoCall == [kind |-> "none"]

\* A call's outcome: a returned value or a raised exception.
Ret(v) == [kind |-> "return", val |-> v]

Raise(e) == [kind |-> "raise", exc |-> e]

RECURSIVE JoinFrom(_, _)
\* " ".join(texts[i..]): the texts separated by exactly one space.
JoinFrom(texts, i) ==
    IF i > Len(texts) THEN << >>
    ELSE IF i = Len(texts) THEN texts[i].s
    ELSE texts[i].s \o <<" ">> \o JoinFrom(texts, i + 1)

\* " ".join(all_text): TypeError unless every item is a str.
SpaceJoin(all_text) ==
    IF \E i \in 1..Len(all_text) : all_text[i].t # "str"
    THEN Raise("TypeError")
    ELSE Ret(Str(JoinFrom(all_text, 1)))

\* ------------------------------------------------------------ extract_text

RECURSIVE extract_text(_, _), DictSearch(_, _, _), ListCollect(_, _, _, _)
\* TTSIntegration.extract_text(data, text_key)
extract_text(data, text_key) ==
    IF ~Truthy(data) THEN Ret(EmptyStr)
    ELSE IF data.t = "dict" THEN
        IF HasKey(data, text_key)
        THEN Ret(Lookup(data, text_key))
        ELSE DictSearch(data.pairs, text_key, 1)
    ELSE IF data.t = "list" THEN
        ListCollect(data.items, text_key, 1, << >>)
    ELSE Ret(EmptyStr)

\* DictSearch with the key test of the loop lost: the first member that is no
\* container is returned whatever its key.
DictSearchAnyKey(pairs, text_key, i) ==
    IF i > Len(pairs) THEN Ret(EmptyStr)
    ELSE IF IsContainer(pairs[i].v) THEN
        LET result == extract_text(pairs[i].v, text_key)
        IN  IF result.kind = "raise" THEN result
            ELSE IF Truthy(result.val) THEN result
            ELSE DictSearch(pairs, text_key, i + 1)
    ELSE Ret(pairs[i].v)

\* The loop over data.items() from its i-th pair on; falls through to the
\* final return "" when no member yields a truthy result.
DictSearch(pairs, text_key, i) ==
    IF i > Len(pairs) THEN Ret(EmptyStr)
    ELSE IF IsContainer(pairs[i].v) THEN
        LET result == extract_text(pairs[i].v, text_key)
        IN  IF result.kind = "raise" THEN result
            ELSE IF Truthy(result.val) THEN result
            ELSE DictSearch(pairs, text_key, i + 1)
    ELSE IF pairs[i].k = text_key THEN Ret(pairs[i].v)
    ELSE DictSearch(pairs, text_key, i + 1)

\* The loop over a list from its i-th item on, all_text being what was
\* appended so far, and the final " ".join(all_text).
ListCollect(items, text_key, i, all_text) ==
    IF i > Len(items) THEN SpaceJoin(all_text)
    ELSE LET extracted == extract_text(items[i], text_key)
         IN  IF extracted.kind = "raise" THEN extracted
             ELSE IF Truthy(extracted.val)
                  THEN ListCollect(items, text_key, i + 1, Append(all_text, extracted.val))
                  ELSE ListCollect(items, text_key, i + 1, all_text)

\* extract_text taking the matched member out of the mapping: data.pop(text_key).
DataAfterExtractPop(data, text_key) ==
    IF data.t = "dict" /\ HasKey(data, text_key)
    THEN LET Kept(p) == p.k # text_key
         IN  Dict(SelectSeq(data.pairs, Kept))
    ELSE data

\* The value `data` refers to when extract_text(data, text_key) is over: the
\* function only reads data (in, [], items(), iteration), and all_text is a
\* list of its own.
DataAfterExtract(data, text_key) == data

\* ------------------------------------------------ TTSIntegration methods

\* __init__'s default output_dir.
output_dir == "audio_output"

\* The URL the callers pass.
URL == Str(<<"http://api">>)

\* What the HTTP exchange of requests.get / raise_for_status / json can do:
\* fail in the network, answer with a non-2xx status, answer with a body that
\* is not JSON, or answer with the JSON value `body`.  `wrapped` tells whether
\* the installed requests raises its JSON decode error as a RequestException
\* (requests >= 2.27) or as a bare ValueError (older releases).
Exchange(kind, body, wrapped) == [kind |-> kind, body |-> body, wrapped |-> wrapped]

\* No request was made.
NoExchange == Exchange("none", Unbound, TRUE)

\* url = api_url or self.api_url
EffectiveURL(self_url, api_url) == IF Truthy(api_url) THEN api_url ELSE self_url

\* The result of a method: its outcome, what it printed, and its effects.
FetchResult(out, printed, sent) == [out |-> out, printed |-> printed, sent |-> sent]

\* fetch_data whose except branch returns a payload describing the error
\* instead of None.
fetch_data_error_payload(self_url, api_url, x) ==
    LET url == EffectiveURL(self_url, api_url)
        payload == Dict(<<Pair(<<"text">>, Str(<<"A">>))>>)
    IN  IF ~Truthy(url) THEN FetchResult(Raise("ValueError"), << >>, 0)
        ELSE IF x.kind = "ok" THEN FetchResult(Ret(x.body), << >>, 1)
        ELSE FetchResult(Ret(payload), <<"Error fetching data from API">>, 1)

\* fetch_data that issues the request a second time when the first fails.
fetch_data_retry(self_url, api_url, x) ==
    LET url == EffectiveURL(self_url, api_url)
    IN  IF ~Truthy(url) THEN FetchResult(Raise("ValueError"), << >>, 0)
        ELSE IF x.kind = "ok" THEN FetchResult(Ret(x.body), << >>, 1)
        ELSE IF x.kind = "malformed" /\ ~x.wrapped
        THEN FetchResult(Raise("JSONDecodeError"), << >>, 1)
        ELSE FetchResult(Ret(Null), <<"Error fetching data from API">>, 2)

\* TTSIntegration.fetch_data(api_url), self.api_url being self_url and the
\* HTTP exchange doing x.  `sent` counts the requests issued.
fetch_data(self_url, api_url, x) ==
    LET url == EffectiveURL(self_url, api_url)
    IN  IF ~Truthy(url) THEN FetchResult(Raise("ValueError"), << >>, 0)
        ELSE CASE x.kind = "network_error" ->
                    FetchResult(Ret(Null), <<"Error fetching data from API">>, 1)
               [] x.kind = "http_error" ->
                    FetchResult(Ret(Null), <<"Error fetching data from API">>, 1)
               [] x.kind = "malformed" ->
                    IF x.wrapped
                    THEN FetchResult(Ret(Null), <<"Error fetching data from API">>, 1)
                    ELSE FetchResult(Raise("JSONDecodeError"), << >>, 1)
               [] x.kind = "ok" -> FetchResult(Ret(x.body), << >>, 1)

\* filename.endswith('.mp3')
EndsWithMp3(filename) ==
    /\ Len(filename.s) > 0
    /\ filename.s[Len(filename.s)] = ".mp3"

\* os.path.join(self.output_dir, filename)
PathJoin(dir, filename) == Str(<<dir, "/">> \o filename.s)

\* The path with '.mp3' appended to every name, whatever its ending.
OutputPathAlwaysAppend(filename, now) ==
    LET named == IF ~Truthy(filename)
                 THEN Str(<<"tts_output_", ToString(now)>>)
                 ELSE filename
    IN  PathJoin(output_dir, Str(named.s \o <<".mp3">>))

\* The path text_to_speech writes to for `filename` at clock value `now`.
OutputPath(filename, now) ==
    LET named == IF ~Truthy(filename)
                 THEN Str(<<"tts_output_", ToString(now)>>)
                 ELSE filename
        full  == IF EndsWithMp3(named) THEN named ELSE Str(named.s \o <<".mp3">>)
    IN  PathJoin(output_dir, full)

\* One use of the backend: gTTS(text=text, lang=lang, slow=False).save(path)
Synthesis(text, lang, path) == [text |-> text, lang |-> lang, path |-> path]

SpeechResult(out, printed, backend, written) ==
    [out |-> out, printed |-> printed, backend |-> backend, written |-> written]

\* text_to_speech without its test `if not text`: the backend is used for
\* any text, and raises for an empty one.
text_to_speech_unchecked(text, filename, lang, now, synth) ==
    LET output_path == OutputPath(filename, now)
        use == <<Synthesis(text, lang, output_path)>>
    IN  IF synth = "ok"
        THEN SpeechResult(Ret(output_path),
                          <<"Text converted to speech and saved">>, use, {output_path})
        ELSE SpeechResult(Ret(Null), <<"Error converting text to speech">>, use, {})

\* text_to_speech whose except branch returns "" instead of None.
text_to_speech_empty_on_error(text, filename, lang, now, synth) ==
    IF ~Truthy(text)
    THEN SpeechResult(Ret(Null), <<"No text provided for conversion">>, << >>, {})
    ELSE LET output_path == OutputPath(filename, now)
             use == <<Synthesis(text, lang, output_path)>>
         IN  IF synth = "ok"
             THEN SpeechResult(Ret(output_path),
                               <<"Text converted to speech and saved">>, use, {output_path})
             ELSE SpeechResult(Ret(EmptyStr), <<"Error converting text to speech">>, use,
                               IF synth = "error_partial" THEN {output_path} ELSE {})

\* text_to_speech that hands the backend its default language 'en' whatever
\* `lang` is.
text_to_speech_default_lang(text, filename, lang, now, synth) ==
    IF ~Truthy(text)
    THEN SpeechResult(Ret(Null), <<"No text provided for conversion">>, << >>, {})
    ELSE LET output_path == OutputPath(filename, now)
             use == <<Synthesis(text, Str(<<"en">>), output_path)>>
         IN  IF synth = "ok"
             THEN SpeechResult(Ret(output_path),
                               <<"Text converted to speech and saved">>, use, {output_path})
             ELSE SpeechResult(Ret(Null), <<"Error converting text to speech">>, use,
                               IF synth = "error_partial" THEN {output_path} ELSE {})

\* TTSIntegration.text_to_speech(text, filename, lang) at clock value `now`,
\* the backend doing `synth`: "ok" (the file is saved), "error" (gTTS raises
\* before the file is opened) or "error_partial" (save raises after it has
\* created the file).
text_to_speech(text, filename, lang, now, synth) ==
    IF ~Truthy(text)
    THEN SpeechResult(Ret(Null), <<"No text provided for conversion">>, << >>, {})
    ELSE LET output_path == OutputPath(filename, now)
             use == <<Synthesis(text, lang, output_path)>>
         IN  CASE synth = "ok" ->
                    SpeechResult(Ret(output_path),
                                 <<"Text converted to speech and saved">>, use, {output_path})
               [] synth = "error" ->
                    SpeechResult(Ret(Null), <<"Error converting text to speech">>, use, {})
               [] synth = "error_partial" ->
                    SpeechResult(Ret(Null), <<"Error converting text to speech">>, use,
                                 {output_path})

\* What the backend can do with `text`: gTTS takes a str; anything else makes
\* it raise before a file is opened.
SynthOutcomes(text) ==
    IF text.t = "str" THEN {"ok", "error", "error_partial"} ELSE {"error"}

\* TTSIntegration.play_audio(audio_file): what it prints, `exists` being
\* os.path.exists(audio_file) and `player_ok` whether pygame plays the file.
play_audio(audio_file, exists, player_ok) ==
    IF ~exists THEN <<"Audio file not found">>
    ELSE IF player_ok THEN << >>
    ELSE <<"Error playing audio">>

\* The backend uses made for the output name `filename`, when one is given:
\* which path each was told to save to.
Targeted(filename, uses) ==
    IF Truthy(filename)
    THEN {[filename |-> filename, path |-> uses[i].path] : i \in DOMAIN uses}
    ELSE {}

\* len(text) of the print in process_pipeline raises TypeError for a value
\* that has no length (None, a bool, a number).  The slice text[:100] is
\* taken only for more than 100 items, which no value here has.
HasLen(text) == text.t \in {"str", "list", "dict"}

\* ------------------------------------- get_news_audio (tts_api_server.py)

\* tts = GeminiTTSIntegration(output_dir="api_audio_output", ...)
server_output_dir == "api_audio_output"

\* The news ids the route /api/news-audio/<news_id> binds: non-empty path
\* segments, some of them ending like a content source.
NewsIds ==
    {Str(<<"1">>), Str(<<"2">>), Str(<<"1", "_", "content">>), Str(<<"1", "_", "short">>)}

\* The attributes get_news_audio reads, in the order of its if/elif chain.
Sources == <<"content", "short_description", "title">>

\* The characters of a content source, cut where a news id can be cut.
SourceText(source) ==
    IF source = "short_description" THEN <<"short", "_", "description">> ELSE <<source>>

\* The filename without the content source.
FilenameOfId(news_id, source) == Str(<<"news", "_">> \o news_id.s)

\* filename = f"news_{news_id}_{content_source}"
Filename(news_id, source) ==
    Str(<<"news", "_">> \o news_id.s \o <<"_">> \o SourceText(source))

\* jsonify({"success": ..., ...}), status: the JSON answer of the handler.
Response(status, success, error) ==
    [status |-> status, success |-> success, error |-> error]

NoResponse == Response(0, FALSE, "none")

\* The answer of the except branch.
InternalError == Response(500, FALSE, "Internal server error")

\* `key in c` is defined for a mapping, a list and a string; it raises
\* TypeError for None, a bool or a number.
SupportsIn(c) == c.t \in {"dict", "list", "str"}

\* key in c: a key of a mapping, an item of a list, a part of a string.
Contains(key, c) ==
    CASE c.t = "dict" -> HasKey(c, key)
      [] c.t = "list" -> \E i \in DOMAIN c.items : c.items[i] = Str(key)
      [] c.t = "str"  -> \E i \in DOMAIN c.s : c.s[i] = key[1]

\* tts_text and content_source after the if/elif chain.
Selection(text, source) == [kind |-> "return", text |-> text, source |-> source]

RECURSIVE SelectFrom(_, _)
\* The if/elif chain over attributes from its i-th test on: the first source
\* that attributes holds with a truthy value.  c[key] raises TypeError for a
\* list or a string c.
SelectFrom(attributes, i) ==
    IF i > Len(Sources) THEN Selection(Null, "none")
    ELSE IF ~SupportsIn(attributes) THEN Raise("TypeError")
    ELSE IF ~Contains(<<Sources[i]>>, attributes) THEN SelectFrom(attributes, i + 1)
    ELSE IF attributes.t # "dict" THEN Raise("TypeError")
    ELSE IF Truthy(Lookup(attributes, <<Sources[i]>>))
    THEN Selection(Lookup(attributes, <<Sources[i]>>), Sources[i])
    ELSE SelectFrom(attributes, i + 1)

\* if 'attributes' in news_content: attributes = news_content['attributes']; ...
SelectContent(news_content) ==
    IF ~SupportsIn(news_content) THEN Raise("TypeError")
    ELSE IF ~Contains(<<"attributes">>, news_content) THEN Selection(Null, "none")
    ELSE IF news_content.t # "dict" THEN Raise("TypeError")
    ELSE SelectFrom(Lookup(news_content, <<"attributes">>), 1)

\* The handler has answered.
Answered(resp) == [kind |-> "answer", resp |-> resp]

\* The handler calls tts.text_to_speech(text=tts_text, filename=filename, lang="en").
SpeechCall(text, filename, source) ==
    [kind |-> "call", text |-> text, filename |-> filename, source |-> source]

\* get_news_audio from the return of tts.fetch_data to its answer or to its
\* call of tts.text_to_speech; `fetched` is what fetch_data returned or raised.
AfterFetch(news_id, fetched) ==
    IF fetched.kind = "raise" THEN Answered(InternalError)
    ELSE LET news_data == fetched.val
         IN  IF ~Truthy(news_data)
             THEN Answered(Response(500, FALSE, "Failed to fetch news data"))
             ELSE IF ~SupportsIn(news_data) THEN Answered(InternalError)
             ELSE IF ~Contains(<<"data">>, news_data)
             THEN Answered(Response(404, FALSE, "News article not found"))
             ELSE IF news_data.t # "dict" THEN Answered(InternalError)
             ELSE IF ~Truthy(Lookup(news_data, <<"data">>))
             THEN Answered(Response(404, FALSE, "News article not found"))
             ELSE LET sel == SelectContent(Lookup(news_data, <<"data">>))
                  IN  IF sel.kind = "raise" THEN Answered(InternalError)
                      ELSE IF ~Truthy(sel.text)
                      THEN Answered(Response(404, FALSE, "No content available"))
                      ELSE SpeechCall(sel.text, Filename(news_id, sel.source), sel.source)

\* The handler answering 200 without its test `if not audio_file`.
AfterSynthUnchecked(audio) ==
    IF audio.kind = "raise" THEN InternalError
    ELSE Response(200, TRUE, "")

\* get_news_audio from the return of tts.text_to_speech to its answer; `audio`
\* is what text_to_speech returned or raised.
AfterSynth(audio) ==
    IF audio.kind = "raise" THEN InternalError
    ELSE IF ~Truthy(audio.val)
    THEN Response(500, FALSE, "Failed to generate audio file")
    ELSE Response(200, TRUE, "")

\* What tts.text_to_speech can do for the handler: return the path of a file
\* in its output directory, return None, or raise.
SpeechOutcomes(filename) ==
    {Ret(PathJoin(server_output_dir, filename)), Ret(Null), Raise("Exception")}

\* One member of a mapping.
Field(k, v) == <<Pair(<<k>>, v)>>

\* A member that may be missing, null, empty, a text or a number.
OptionalField(k) ==
    {<< >>} \cup {Field(k, v) : v \in {Null, EmptyStr, Str(<<"A">>), Num(5)}}

\* The values 'attributes' can have in an upstream answer.
AttributeValues ==
    {Dict(c \o s \o t) : c \in OptionalField("content"),
                         s \in OptionalField("short_description"),
                         t \in OptionalField("title")}
    \cup {Null, Num(5), Str(<<"content">>), Str(<<"A">>), List(<< >>),
          List(<<Str(<<"title">>)>>)}

\* The values 'data' can have in an upstream answer.
ContentValues ==
    {Dict(Field("attributes", a)) : a \in AttributeValues}
    \cup {Null, Dict(<< >>), Num(5), Bool(TRUE), Str(<<"attributes">>), Str(<<"A">>),
          List(<<Num(5)>>), List(<<Str(<<"attributes">>)>>),
          Dict(Field("title", Str(<<"A">>)))}

\* What tts.fetch_data can return to the handler: None or any decoded value.
NewsResponses ==
    {Dict(Field("data", c)) : c \in ContentValues}
    \cup {Null, Dict(<< >>), Num(5), Str(<<"data">>), Str(<<"A">>),
          List(<<Str(<<"data">>)>>), List(<<Num(5)>>),
          Dict(Field("title", Str(<<"A">>)))}

\* A well-formed article with the given attributes.
Article(fields) == Dict(Field("data", Dict(Field("attributes", Dict(fields)))))

\* What tts.fetch_data returns when the upstream API works or is down: an
\* article with a content, with a short description only, with a title only,
\* or None.
Articles ==
    {Null,
     Article(Field("content", Str(<<"A">>)) \o Field("title", Str(<<"B">>))),
     Article(Field("content", EmptyStr) \o Field("short_description", Str(<<"A">>))),
     Article(Field("title", Str(<<"B">>)))}

\* ------------------------------------------------------------------ state

VARIABLES
    x_data,        \* ExtractSpec: the data given to extract_text
    x_key,         \* ExtractSpec: the text_key given to extract_text
    x_out,         \* ExtractSpec: the call's outcome
    self_api_url,  \* self.api_url
    files,         \* the paths that exist in the file system
    clock,         \* int(time.time())
    ncalls,        \* invocations finished so far
    targets,       \* history: the paths the backend was told to save to, per output name
    op,            \* the method invoked: "process_pipeline" or "text_to_speech"
    pc,            \* the invocation's position
    args,          \* the invocation's arguments
    data,          \* process_pipeline's local data
    text,          \* process_pipeline's local text
    audio_file,    \* process_pipeline's local audio_file
    outcome,       \* the invocation's outcome: a return value or an exception
    exchange,      \* history: what the HTTP exchange did
    body,          \* history: the JSON value response.json() decoded
    synth,         \* history: what the backend did
    calls,         \* history: the methods called in this invocation, in order
    requests,      \* history: HTTP requests issued in this invocation
    backend,       \* history: uses of the backend in this invocation
    written,       \* history: paths created or overwritten in this invocation
    log,           \* history: lines printed in this invocation
    reqs           \* tts_api_server: the get_news_audio requests and their handlers

xvars == <<x_data, x_key, x_out>>

gvars == <<self_api_url, files, clock, ncalls, targets>>

lvars == <<op, pc, args, data, text, audio_file, outcome>>

hvars == <<exchange, body, synth, calls, requests, backend, written, log>>

pvars == <<gvars, lvars, hvars>>

svars == <<reqs>>

vars == <<xvars, pvars, svars>>

\* The requests the server can be handling.
Requests == 1..MaxRequests

\* A request that has not arrived.
NoRequest ==
    [pc |-> "waiting", news_id |-> Unbound, fetched |-> NoCall, call |-> NoCall,
     audio |-> NoCall, resp |-> NoResponse]

\* The server with no request in flight.
SIdle == reqs = [r \in Requests |-> NoRequest]

\* ------------------------------------------- extract_text as a pure function

\* One call extract_text(x_data, x_key).
XExtract ==
    /\ x_out = NoCall
    /\ x_out' = extract_text(x_data, x_key)
    /\ x_data' = DataAfterExtract(x_data, x_key)
    /\ UNCHANGED x_key

\* --------------------------------------------------------------- pipeline

\* The locals and histories of an invocation that has not started.
Fresh ==
    /\ op = "none"
    /\ pc = "idle"
    /\ args = Unbound
    /\ data = Unbound
    /\ text = Unbound
    /\ audio_file = Unbound
    /\ outcome = NoCall
    /\ exchange = NoExchange
    /\ body = Unbound
    /\ synth = "none"
    /\ calls = << >>
    /\ requests = 0
    /\ backend = << >>
    /\ written = {}
    /\ log = << >>

\* TTSIntegration(api_url=...): the object after __init__.
PInit ==
    /\ self_api_url \in {Null, URL}
    /\ files = {}
    /\ clock = 0
    /\ ncalls = 0
    /\ targets = {}
    /\ Fresh

OutputFilenames == {Null, Str(<<"out">>), Str(<<"out", ".mp3">>)}

Langs == {Str(<<"en">>), Str(<<"fr">>)}

\* The texts a caller hands to text_to_speech directly.
DirectTexts == {Null, EmptyStr, Str(<<"A">>)}

\* A caller invokes process_pipeline(api_url, text_key, output_filename, lang).
CallPipeline ==
    /\ pc = "idle"
    /\ ncalls < MaxCalls
    /\ \E u \in {Null, URL}, k \in TextKeys, f \in OutputFilenames, l \in Langs :
          args' = [api_url |-> u, text_key |-> k, output_filename |-> f, lang |-> l]
    /\ op' = "process_pipeline"
    /\ pc' = "fetch"
    /\ UNCHANGED <<xvars, svars, gvars, data, text, audio_file, outcome, hvars>>

\* process_pipeline returns or raises `out`.
Finish(out) ==
    /\ pc' = "done"
    /\ outcome' = out

\* data = self.fetch_data(api_url); if not data: print(...); return None
FetchData ==
    /\ pc = "fetch"
    /\ IF Truthy(EffectiveURL(self_api_url, args.api_url))
       THEN \/ /\ exchange' \in {Exchange("network_error", Unbound, TRUE),
                               Exchange("http_error", Unbound, TRUE),
                               Exchange("malformed", Unbound, TRUE),
                               Exchange("malformed", Unbound, FALSE)}
               /\ body' = Unbound
            \/ /\ IsJSONValue(body', FetchNodes)
               /\ exchange' = Exchange("ok", body', TRUE)
       ELSE /\ exchange' = NoExchange
            /\ body' = Unbound
    /\ LET r == fetch_data(self_api_url, args.api_url, exchange')
       IN  /\ calls' = Append(calls, "fetch_data")
           /\ requests' = requests + r.sent
           /\ IF r.out.kind = "raise"
              THEN /\ Finish(r.out)
                   /\ log' = log \o r.printed
                   /\ data' = data
              ELSE IF ~Truthy(r.out.val)
              THEN /\ Finish(Ret(Null))
                   /\ log' = log \o r.printed \o <<"No data fetched from API">>
                   /\ data' = r.out.val
              ELSE /\ pc' = "extract"
                   /\ log' = log \o r.printed
                   /\ data' = r.out.val
                   /\ outcome' = outcome
    /\ UNCHANGED <<xvars, svars, gvars, op, args, text, audio_file, synth, backend, written>>

\* text = self.extract_text(data, text_key); if not text: print(...); return None;
\* print(f"Extracted text: ...")
ExtractText ==
    /\ pc = "extract"
    /\ LET r == extract_text(data, args.text_key)
       IN  /\ calls' = Append(calls, "extract_text")
           /\ data' = DataAfterExtract(data, args.text_key)
           /\ IF r.kind = "raise"
              THEN /\ Finish(r)
                   /\ UNCHANGED <<text, log>>
              ELSE IF ~Truthy(r.val)
              THEN /\ Finish(Ret(Null))
                   /\ text' = r.val
                   /\ log' = Append(log, "No text extracted from data")
              ELSE IF ~HasLen(r.val)
              THEN /\ Finish(Raise("TypeError"))
                   /\ text' = r.val
                   /\ log' = log
              ELSE /\ pc' = "synth"
                   /\ text' = r.val
                   /\ log' = Append(log, "Extracted text")
                   /\ outcome' = outcome
    /\ UNCHANGED <<xvars, svars, gvars, op, args, audio_file,
                   exchange, body, synth, requests, backend, written>>

\* audio_file = self.text_to_speech(text, output_filename, lang), up to the
\* test `if audio_file and os.path.exists(audio_file)`
TextToSpeech ==
    /\ pc = "synth"
    /\ synth' \in SynthOutcomes(text)
    /\ LET r == text_to_speech(text, args.output_filename, args.lang, clock, synth')
       IN  /\ calls' = Append(calls, "text_to_speech")
           /\ audio_file' = r.out.val
           /\ files' = files \cup r.written
           /\ written' = written \cup r.written
           /\ backend' = backend \o r.backend
           /\ targets' = targets \cup Targeted(args.output_filename, r.backend)
           /\ log' = log \o r.printed
           /\ IF Truthy(r.out.val) /\ r.out.val \in files'
              THEN /\ pc' = "play"
                   /\ outcome' = outcome
              ELSE Finish(r.out)
    /\ UNCHANGED <<xvars, svars, self_api_url, clock, ncalls, op, args, data, text,
                   exchange, body, requests>>

\* Between the test os.path.exists(audio_file) of process_pipeline and the
\* one of play_audio, something else removes the file.
RemoveFile ==
    /\ pc = "play"
    /\ audio_file \in files
    /\ files' = files \ {audio_file}
    /\ UNCHANGED <<xvars, svars, self_api_url, clock, ncalls, targets, lvars, hvars>>

\* process_pipeline returning None when play_audio did not play the file.
PlayAudioOrNone ==
    /\ pc = "play"
    /\ \E player_ok \in BOOLEAN :
          LET printed == play_audio(audio_file, audio_file \in files, player_ok)
          IN  /\ log' = log \o printed
              /\ Finish(IF printed = << >> THEN Ret(audio_file) ELSE Ret(Null))
    /\ calls' = Append(calls, "play_audio")
    /\ UNCHANGED <<xvars, svars, gvars, op, args, data, text, audio_file,
                   exchange, body, synth, requests, backend, written>>

\* self.play_audio(audio_file); return audio_file
PlayAudio ==
    /\ pc = "play"
    /\ \E player_ok \in BOOLEAN :
          log' = log \o play_audio(audio_file, audio_file \in files, player_ok)
    /\ calls' = Append(calls, "play_audio")
    /\ Finish(Ret(audio_file))
    /\ UNCHANGED <<xvars, svars, gvars, op, args, data, text, audio_file,
                   exchange, body, synth, requests, backend, written>>

\* A caller invokes text_to_speech(text, filename, lang) directly.
CallTextToSpeech ==
    /\ pc = "idle"
    /\ ncalls < MaxCalls
    /\ \E t \in DirectTexts, f \in OutputFilenames, l \in Langs :
          args' = [text |-> t, filename |-> f, lang |-> l]
    /\ synth' \in IF Truthy(args'.text) THEN SynthOutcomes(args'.text) ELSE {"none"}
    /\ LET r == text_to_speech(args'.text, args'.filename, args'.lang, clock, synth')
       IN  /\ files' = files \cup r.written
           /\ written' = written \cup r.written
           /\ backend' = backend \o r.backend
           /\ targets' = targets \cup Targeted(args'.filename, r.backend)
           /\ log' = log \o r.printed
           /\ Finish(r.out)
    /\ op' = "text_to_speech"
    /\ calls' = Append(calls, "text_to_speech")
    /\ UNCHANGED <<xvars, svars, self_api_url, clock, ncalls, data, text, audio_file,
                   exchange, body, requests>>

\* The invocation is over: its locals are gone, the object and the files stay.
Return ==
    /\ pc = "done"
    /\ ncalls' = ncalls + 1
    /\ op' = "none"
    /\ pc' = "idle"
    /\ args' = Unbound
    /\ data' = Unbound
    /\ text' = Unbound
    /\ audio_file' = Unbound
    /\ outcome' = NoCall
    /\ exchange' = NoExchange
    /\ body' = Unbound
    /\ synth' = "none"
    /\ calls' = << >>
    /\ requests' = 0
    /\ backend' = << >>
    /\ written' = {}
    /\ log' = << >>
    /\ UNCHANGED <<xvars, svars, self_api_url, files, clock, targets>>

\* A second passes between two invocations.
Tick ==
    /\ pc = "idle"
    /\ clock < MaxClock
    /\ clock' = clock + 1
    /\ UNCHANGED <<xvars, svars, self_api_url, files, ncalls, targets, lvars, hvars>>

Init == PInit /\ x_data = Null /\ x_key = << >> /\ x_out = NoCall /\ SIdle

Next ==
    \/ CallPipeline
    \/ FetchData
    \/ ExtractText
    \/ TextToSpeech
    \/ RemoveFile
    \/ PlayAudio
    \/ CallTextToSpeech
    \/ Return
    \/ Tick

Spec == Init /\ [][Next]_vars

\* extract_text about to be called with any data and any text_key, on an
\* object that runs no pipeline.
XInit ==
    /\ IsJSONValue(x_data, MaxNodes)
    /\ x_key \in TextKeys
    /\ x_out = NoCall
    /\ self_api_url = URL
    /\ files = {}
    /\ clock = 0
    /\ ncalls = 0
    /\ targets = {}
    /\ Fresh
    /\ SIdle

XNext == XExtract /\ UNCHANGED <<pvars, svars>>

ExtractSpec == XInit /\ [][XNext]_vars

\* ------------------------------------------------------- get_news_audio

\* The handler of request r answers resp.
Answer(r, resp) == [reqs EXCEPT ![r].pc = "answered", ![r].resp = resp]

\* Request r arrives: get_news_audio(news_id) up to its call of tts.fetch_data.
SReceive(r) ==
    /\ reqs[r].pc = "waiting"
    /\ \E news_id \in NewsIds :
          reqs' = IF ~Truthy(news_id)
                  THEN [Answer(r, Response(400, FALSE, "News ID is required"))
                            EXCEPT ![r].news_id = news_id]
                  ELSE [reqs EXCEPT ![r].pc = "fetching", ![r].news_id = news_id]
    /\ UNCHANGED <<xvars, pvars>>

\* tts.fetch_data returns one of `responses` or raises, and the handler of
\* request r runs on to its answer or to its call of tts.text_to_speech.
SFetch(r, responses) ==
    /\ reqs[r].pc = "fetching"
    /\ \E fetched \in {Ret(v) : v \in responses} \cup {Raise("Exception")} :
          LET h == AfterFetch(reqs[r].news_id, fetched)
          IN  reqs' = IF h.kind = "answer"
                      THEN [Answer(r, h.resp) EXCEPT ![r].fetched = fetched]
                      ELSE [reqs EXCEPT ![r].pc = "synthesizing",
                                        ![r].fetched = fetched,
                                        ![r].call = h]
    /\ UNCHANGED <<xvars, pvars>>

\* tts.text_to_speech returns or raises, and the handler of request r answers.
SSynth(r) ==
    /\ reqs[r].pc = "synthesizing"
    /\ \E audio \in SpeechOutcomes(reqs[r].call.filename) :
          reqs' = [Answer(r, AfterSynth(audio)) EXCEPT ![r].audio = audio]
    /\ UNCHANGED <<xvars, pvars>>

\* The server started, the TTSIntegration object of the scripts unused.
SInit ==
    /\ SIdle
    /\ x_data = Null
    /\ x_key = << >>
    /\ x_out = NoCall
    /\ self_api_url = URL
    /\ files = {}
    /\ clock = 0
    /\ ncalls = 0
    /\ targets = {}
    /\ Fresh

\* One request, with every answer the upstream API can give.
HandlerNext ==
    \/ SReceive(1)
    \/ SFetch(1, NewsResponses)
    \/ SSynth(1)

HandlerSpec == SInit /\ [][HandlerNext]_vars

\* Requests handled concurrently, one thread each, interleaved at the calls
\* of tts.fetch_data and tts.text_to_speech.
ServerNext ==
    \E r \in Requests :
        \/ SReceive(r)
        \/ SFetch(r, Articles)
        \/ SSynth(r)

ServerSpec == SInit /\ [][ServerNext]_vars

\* ===================================================== extract_text claims

\* extract_text has been called and has returned or raised.
XCalled == x_out # NoCall

\* extract_text has returned a value.
XReturned == x_out.kind = "return"

\* C3: for every JSON value and every text_key, extract_text returns a value
\* and never raises an exception.
C3_NeverRaises == x_out.kind # "raise"

\* The integer a path segment denotes, -1 when it is no index.
SegmentIndex(seg) ==
    CASE seg = "0" -> 0
      [] seg = "1" -> 1
      [] seg = "2" -> 2
      [] OTHER -> -1

RECURSIVE ResolvePath(_, _, _)
\* Structured resolution of path[i..] in v, as the claim describes it: a
\* mapping key for a mapping, an in-bounds integer index for a sequence.
ResolvePath(v, path, i) ==
    IF i > Len(path) THEN [found |-> TRUE, val |-> v]
    ELSE IF v.t = "dict" /\ HasKey(v, <<path[i]>>)
         THEN ResolvePath(Lookup(v, <<path[i]>>), path, i + 1)
    ELSE IF /\ v.t = "list"
            /\ SegmentIndex(path[i]) >= 0
            /\ SegmentIndex(path[i]) < Len(v.items)
         THEN ResolvePath(v.items[SegmentIndex(path[i]) + 1], path, i + 1)
    ELSE [found |-> FALSE, val |-> Null]

\* C4: when text_key is a dotted path whose segments resolve step by step in
\* data, extract_text returns the value found at that path.
C4_DottedPathResolves ==
    (XCalled /\ Len(x_key) > 1 /\ ResolvePath(x_data, x_key, 1).found)
        => x_out = Ret(ResolvePath(x_data, x_key, 1).val)

\* A search outcome that is a non-empty value.
NonEmptyResult(r) == r.kind = "return" /\ Truthy(r.val)

\* The container-valued members of mapping d whose own search for key is
\* non-empty, by position.
MatchingMembers(d, key) ==
    {i \in 1..Len(d.pairs) :
        /\ IsContainer(d.pairs[i].v)
        /\ NonEmptyResult(extract_text(d.pairs[i].v, key))}

\* The least element of a non-empty set of positions.
First(S) == CHOOSE i \in S : \A j \in S : i <= j

\* C5: for a dot-free text_key and mapping data, extract_text returns the
\* value under text_key when it is a direct key; otherwise it returns the
\* result of the first container-valued member, in insertion order, whose own
\* search is non-empty.
C5_DirectKeyOrFirstMatch ==
    (XCalled /\ Len(x_key) = 1 /\ x_data.t = "dict")
        => /\ XReturned
           /\ HasKey(x_data, x_key) => x_out = Ret(Lookup(x_data, x_key))
           /\ (~HasKey(x_data, x_key) /\ MatchingMembers(x_data, x_key) # {})
                 => x_out = extract_text(
                               x_data.pairs[First(MatchingMembers(x_data, x_key))].v, x_key)

RECURSIVE KeyOccurs(_, _)
\* Some mapping at some depth of v has `key` as a key.
KeyOccurs(v, key) ==
    CASE v.t = "dict" ->
            \/ HasKey(v, key)
            \/ \E i \in 1..Len(v.pairs) : KeyOccurs(v.pairs[i].v, key)
      [] v.t = "list" -> \E i \in 1..Len(v.items) : KeyOccurs(v.items[i], key)
      [] OTHER -> FALSE

\* C6: extract_text returns the empty string whenever no mapping at any depth
\* of data has text_key as a key.
C6_EmptyWhenKeyAbsent ==
    (XCalled /\ ~KeyOccurs(x_data, x_key)) => x_out = Ret(EmptyStr)

\* C6's case: a mapping with a non-empty container member, searched for a
\* key that occurs nowhere in it.
C6_Witness ==
    /\ XCalled
    /\ ~KeyOccurs(x_data, x_key)
    /\ x_data.t = "dict"
    /\ \E i \in 1..Len(x_data.pairs) :
          IsContainer(x_data.pairs[i].v) /\ Truthy(x_data.pairs[i].v)

\* The per-element results of a sequence that are non-empty, in order.
ElementResults(items, key) ==
    LET r == [i \in 1..Len(items) |-> extract_text(items[i], key)]
    IN  SelectSeq(r, NonEmptyResult)

\* C7: when data is a sequence, extract_text returns the non-empty
\* per-element results joined by exactly one space, in element order.
C7_SequenceJoin ==
    (XCalled /\ x_data.t = "list")
        => /\ XReturned
           /\ LET rs == ElementResults(x_data.items, x_key)
              IN  (\A i \in 1..Len(rs) : rs[i].val.t = "str")
                     => x_out.val = Str(JoinFrom([i \in 1..Len(rs) |-> rs[i].val], 1))

RECURSIVE LeafTexts(_), LeafTextsOf(_, _)
\* The string representations of the leaves of v, in order, null and empty
\* texts left out: what the claim says a matched value is turned into.
LeafTexts(v) ==
    CASE v.t = "null" -> << >>
      [] v.t = "bool" -> <<Str(<<IF v.b THEN "True" ELSE "False">>)>>
      [] v.t = "num"  -> <<Str(<<ToString(v.n)>>)>>
      [] v.t = "str"  -> IF Len(v.s) > 0 THEN <<v>> ELSE << >>
      [] v.t = "list" -> LeafTextsOf(v.items, 1)
      [] v.t = "dict" -> LeafTextsOf([i \in 1..Len(v.pairs) |-> v.pairs[i].v], 1)

LeafTextsOf(vs, i) ==
    IF i > Len(vs) THEN << >> ELSE LeafTexts(vs[i]) \o LeafTextsOf(vs, i + 1)

\* C8: the result of extract_text is always a text string; a value found
\* under the matched key is returned as its string representation, a
\* sequence or mapping as its leaf texts joined with single spaces.
C8_AlwaysText ==
    /\ XReturned => x_out.val.t = "str"
    /\ (XCalled /\ x_data.t = "dict" /\ HasKey(x_data, x_key))
          => x_out = Ret(Str(JoinFrom(LeafTexts(Lookup(x_data, x_key)), 1)))

\* ================================================== process_pipeline claims

InPipeline == op = "process_pipeline"

\* fetch_data returned no data because the request failed: a network error,
\* a non-2xx status, or a malformed body whose decode error is caught.
FetchFailed ==
    \/ exchange.kind \in {"network_error", "http_error"}
    \/ exchange.kind = "malformed" /\ exchange.wrapped

\* C1: if the fetch step of process_pipeline fails, text_to_speech and
\* play_audio are never called in that invocation and process_pipeline
\* returns None.
C1_FetchFailureStops ==
    (InPipeline /\ FetchFailed)
        => /\ pc = "done"
           /\ outcome = Ret(Null)
           /\ \A i \in 1..Len(calls) : calls[i] \notin {"text_to_speech", "play_audio"}
           /\ backend = << >>

\* C1's case: the server answered with a non-2xx status.
C1_Witness ==
    /\ InPipeline
    /\ exchange.kind = "http_error"
    /\ pc = "done"

\* The text handed to synthesis in this invocation.
SpokenText == IF InPipeline THEN text ELSE args.text

\* C2: an artifact is only produced for non-empty text: when extract_text
\* yields empty text, process_pipeline calls no synthesis, writes no file and
\* returns None; text_to_speech with empty text returns None without using
\* the backend.
C2_NoArtifactForEmptyText ==
    /\ (InPipeline /\ text # Unbound /\ ~Truthy(text))
          => /\ pc = "done"
             /\ outcome = Ret(Null)
             /\ \A i \in 1..Len(calls) : calls[i] # "text_to_speech"
             /\ backend = << >>
             /\ written = {}
    /\ (op = "text_to_speech" /\ ~Truthy(args.text))
          => /\ outcome = Ret(Null)
             /\ backend = << >>
             /\ written = {}
    /\ written # {} => Truthy(SpokenText)

\* C2's case: the body was fetched and the extraction found no text.
C2_Witness ==
    /\ InPipeline
    /\ exchange.kind = "ok"
    /\ Truthy(data)
    /\ text # Unbound
    /\ ~Truthy(text)
    /\ pc = "done"

\* C9: process_pipeline never raises an exception to its caller, for every
\* configuration of URLs (none given included) and every fetched JSON value.
C9_NeverRaises ==
    (InPipeline /\ exchange.kind \in {"none", "ok"}) => outcome.kind # "raise"

\* The stage whose failure ended this invocation of process_pipeline.
FailedStage ==
    IF FetchFailed \/ (exchange.kind = "ok" /\ ~Truthy(body)) THEN "fetch"
    ELSE IF text # Unbound /\ ~Truthy(text) THEN "extract"
    ELSE IF synth \in {"error", "error_partial"} THEN "synthesize"
    ELSE "none"

\* A failure value that names its kind.
Failure(kind) == [t |-> "failure", kind |-> kind]

StageMessage(stage) ==
    CASE stage = "fetch" -> "No data fetched from API"
      [] stage = "extract" -> "No text extracted from data"
      [] stage = "synthesize" -> "Error converting text to speech"

ArtifactProduced ==
    /\ InPipeline
    /\ "text_to_speech" \in {calls[i] : i \in DOMAIN calls}
    /\ Truthy(audio_file)

\* C11: a playback failure never invalidates a produced artifact: whenever
\* text_to_speech returned a path inside process_pipeline, process_pipeline
\* returns that same path, whether play_audio played the file, failed
\* internally or found the file missing.
C11_PlaybackKeepsArtifact ==
    (ArtifactProduced /\ pc = "done") => outcome = Ret(audio_file)

\* C11's case: the file was gone when play_audio looked for it, and
\* process_pipeline has returned.
C11_Witness ==
    /\ ArtifactProduced
    /\ pc = "done"
    /\ synth = "ok"
    /\ audio_file \notin files
    /\ log[Len(log)] = "Audio file not found"

\* The name without its final '.mp3', when it has one.
Stem(name) ==
    IF Len(name.s) > 0 /\ name.s[Len(name.s)] = ".mp3"
    THEN SubSeq(name.s, 1, Len(name.s) - 1)
    ELSE name.s

\* C12: output naming is idempotent: for every output name text_to_speech
\* targets output_dir/<name> with '.mp3' present once, appended only when the
\* name does not already end in '.mp3', so all invocations with the same
\* output name write to one and the same path.
C12_NamingIdempotent ==
    \A a \in targets :
        /\ a.path = Str(<<output_dir, "/">> \o Stem(a.filename) \o <<".mp3">>)
        /\ \A b \in targets : b.filename = a.filename => b.path = a.path

\* C12's case: the backend was used for a name that already ends in '.mp3'
\* and, in another invocation, for the same name without it, and both
\* invocations wrote to one path.
C12_Witness ==
    \E a, b \in targets :
        /\ a.filename = Str(<<"out", ".mp3">>)
        /\ b.filename = Str(<<"out">>)
        /\ a.path = b.path
        /\ a.path \in files

\* The filename argument of the invocation.
InvocationFilename == IF InPipeline THEN args.output_filename ELSE args.filename

\* C13: when no output name is given the timestamp-derived name avoids
\* collisions: any two invocations of text_to_speech made without a filename
\* use distinct paths: a use of the backend made without a filename never
\* targets a path that an earlier use has written.
C13_AutoNamesDistinct ==
    [][\A i \in DOMAIN backend' \ DOMAIN backend :
          ~Truthy(InvocationFilename') => backend'[i].path \notin files]_vars

\* The stages of process_pipeline, in the order of its code.
Stages == <<"fetch_data", "extract_text", "text_to_speech", "play_audio">>

Called(stage) == stage \in {calls[i] : i \in DOMAIN calls}

\* C15: within one process_pipeline invocation the stages run at most once
\* each and in the order fetch, extract, synthesize, play; at most one HTTP
\* request is issued; synthesis happens only after a successful fetch and a
\* non-empty extraction; playback happens only after synthesis returned the
\* path of a file it wrote.
C15_StagesInOrder ==
    InPipeline =>
        /\ Len(calls) <= Len(Stages)
        /\ calls = SubSeq(Stages, 1, Len(calls))
        /\ requests <= 1
        /\ Called("text_to_speech") =>
              /\ exchange.kind = "ok"
              /\ Truthy(data)
              /\ Truthy(text)
        /\ Called("play_audio") =>
              /\ synth = "ok"
              /\ Truthy(audio_file)
              /\ audio_file \in written

\* C15's case: an invocation that issued its one request and ran all four
\* stages.
C15_Witness ==
    /\ InPipeline
    /\ pc = "done"
    /\ calls = Stages
    /\ requests = 1

\* The fetch returned a mapping that holds a non-empty string under text_key.
FetchedText ==
    /\ InPipeline
    /\ exchange.kind = "ok"
    /\ body.t = "dict"
    /\ HasKey(body, args.text_key)
    /\ Lookup(body, args.text_key).t = "str"
    /\ Truthy(Lookup(body, args.text_key))

\* path lies inside output_dir.
InOutputDir(path) ==
    /\ path.t = "str"
    /\ Len(path.s) > 2
    /\ SubSeq(path.s, 1, 2) = <<output_dir, "/">>

\* C17: end-to-end success: when the fetch returns a mapping with a non-empty
\* string under text_key, text_to_speech is called exactly once, with exactly
\* that text and the given language, and when the synthesizer succeeds
\* process_pipeline returns the path of the written file inside output_dir.
C17_EndToEnd ==
    (FetchedText /\ pc = "done") =>
        /\ Cardinality({i \in DOMAIN calls : calls[i] = "text_to_speech"}) = 1
        /\ Len(backend) = 1
        /\ backend[1].text = Lookup(body, args.text_key)
        /\ backend[1].lang = args.lang
        /\ synth = "ok" =>
              /\ outcome = Ret(backend[1].path)
              /\ backend[1].path \in written
              /\ InOutputDir(backend[1].path)

\* C17's case: the synthesizer succeeded for the fetched text, in a language
\* other than the default, and process_pipeline has returned.
C17_Witness ==
    /\ FetchedText
    /\ pc = "done"
    /\ synth = "ok"
    /\ args.lang = Str(<<"fr">>)
    /\ outcome.val \in files

Writing(r) == reqs[r].pc = "synthesizing"

\* C14: when several get_news_audio requests are handled concurrently, no two
\* in-flight requests write to the same file: the filenames they pass to
\* text_to_speech are pairwise distinct.
C14_DistinctFilenames ==
    \A r1, r2 \in Requests :
        (r1 # r2 /\ Writing(r1) /\ Writing(r2))
            => reqs[r1].call.filename # reqs[r2].call.filename

\* An exception reached the except branch of the handler of request q.
Excepted(q) == q.resp.error = "Internal server error"

\* v[key] when v is a mapping that holds key, None otherwise.
Member(v, key) == IF v.t = "dict" /\ HasKey(v, key) THEN Lookup(v, key) ELSE Null

\* The 'data' member of what the upstream fetch returned.
NewsContent(q) == Member(q.fetched.val, <<"data">>)

\* None of attributes.content, attributes.short_description and
\* attributes.title is non-empty.
NoContent(q) ==
    \A i \in DOMAIN Sources :
        ~Truthy(Member(Member(NewsContent(q), <<"attributes">>), <<Sources[i]>>))

\* The status the claim gives the answer to request q.
StatusOf(q) ==
    IF Excepted(q) THEN 500
    ELSE IF ~Truthy(q.fetched.val) THEN 500
    ELSE IF ~Truthy(NewsContent(q)) THEN 404
    ELSE IF NoContent(q) THEN 404
    ELSE IF ~Truthy(q.audio.val) THEN 500
    ELSE 200

\* C16: get_news_audio answers every request with exactly one status: 500
\* when the upstream fetch yields no data; 404 when the response has no
\* non-empty 'data' member; 404 when none of attributes.content,
\* attributes.short_description, attributes.title is non-empty; 500 when
\* synthesis returns no file or an exception occurs in the handler; 200
\* otherwise; 'success' is true exactly when the status is 200.
C16_StatusCodes ==
    \A r \in Requests :
        reqs[r].pc = "answered" =>
            /\ reqs[r].resp.status = StatusOf(reqs[r])
            /\ reqs[r].resp.success <=> reqs[r].resp.status = 200

\* C16's case: a request was answered 404 for an article whose attributes
\* hold no text.
C16_Witness ==
    \E r \in Requests :
        /\ reqs[r].pc = "answered"
        /\ reqs[r].resp.status = 404
        /\ Truthy(NewsContent(reqs[r]))
        /\ NoContent(reqs[r])
        /\ Member(NewsContent(reqs[r]), <<"attributes">>).t = "dict"

\* The handler of request r has built its filename.
Named(r) == reqs[r].call # NoCall

\* C19: the filename news_<news_id>_<content_source> is injective: two requests
\* get the same filename exactly when their news_id and their content source
\* are both equal.
C19_FilenameInjective ==
    \A r1, r2 \in Requests :
        (Named(r1) /\ Named(r2)) =>
            (reqs[r1].call.filename = reqs[r2].call.filename
                <=> /\ reqs[r1].news_id = reqs[r2].news_id
                    /\ reqs[r1].call.source = reqs[r2].call.source)

\* C19's case: two requests for one news id whose articles gave different
\* content sources, and so different filenames.
C19_Witness ==
    \E r1, r2 \in Requests :
        /\ Named(r1)
        /\ Named(r2)
        /\ reqs[r1].news_id = reqs[r2].news_id
        /\ reqs[r1].call.source = "content"
        /\ reqs[r2].call.source = "short_description"
        /\ reqs[r1].call.filename # reqs[r2].call.filename

=============================================================================
